---------------------------- MODULE Spec2Model ----------------------------
(***************************************************************************)
(* Model of the Adaptor of src/adaptor.py: construction (Adaptor.__init__, *)
(* Project.__init__, AdaptorModule.__init__), the forward pass             *)
(* (Adaptor.forward, Project.forward, AdaptorModule.forward) taken one     *)
(* statement group at a time.                                              *)
(*                                                                         *)
(* Numbers.  A raw embedding and a projection weight are integers.  A      *)
(* vector that went through a division by its norm is kept exactly, as the *)
(* record [vec |-> v, nsq |-> n] standing for v / sqrt(n): v is an integer *)
(* vector and n a natural number.  nsq = 0 is NaN, which is what torch     *)
(* returns for 0 / 0.  A similarity logit is the record                    *)
(* [num |-> a, dsq |-> n, ls |-> s] standing for exp(s) * a / sqrt(n), NaN *)
(* when dsq = 0.  Sums whose order does not change their value (the mean   *)
(* of a cross entropy over the rows, log-sum-exp over a row, the sum of    *)
(* the two directions of the loss) are kept as bags of their terms.        *)
(***************************************************************************)
EXTENDS Integers, Sequences, FiniteSets, Bags, TLC

VARIABLES
    phase,      \* "new" | "constructed" | "ctor_failed"
    init_args,  \* the arguments Adaptor.__init__ was called with
    ctor_error, \* the exception __init__ raised: [type, stack], or NoError
    self,       \* the fields Adaptor.__init__ assigns
    params,     \* the learned parameters (nn.Linear weights, encoder, logit_scale)
    pc,         \* position inside Adaptor.forward, "idle" between calls
    args,       \* the arguments of the running forward call
    bound,      \* names of the local variables of forward bound so far
    loc,        \* values of the local variables of forward
    trace,      \* statement groups of forward executed so far in this call
    denoms,     \* squared norms the call has divided by so far
    stdout,     \* lines printed by the call
    ret         \* how the call ended: returned value or raised exception

vars == <<phase, init_args, ctor_error, self, params, pc, args, bound, loc,
          trace, denoms, stdout, ret>>

---------------------------------------------------------------------------
(* Bounds of the model *)

MaxBatch == 2
MaxLen == 2

\* widths an explicit configuration may name
Dims == {1, 2}
\* what the encoders fill their outputs with: pal[1] is the step from one
\* sample to the next, pal[2] the height of the pattern along a sequence
Palettes == {<<1, 1>>, <<0, 1>>}

---------------------------------------------------------------------------
(* Program constants *)

\* BertConfig(): hidden_size when no adaptor_config is given
DefaultHiddenSize == 768
\* AdaptorModule.__init__: num_hidden_layers=2
DefaultNumHiddenLayers == 2
\* Adaptor.__init__: logit_scale_init_value=2.6592, in units of 1e-4
LogitScaleInitValue == 26592

Tags == {"huggingface", "timm", "ae", "transformer"}

---------------------------------------------------------------------------
(* Integer vectors and matrices *)

RECURSIVE SumSeq(_)
SumSeq(s) == IF s = <<>> THEN 0 ELSE s[1] + SumSeq(Tail(s))

Range(s) == {s[i] : i \in DOMAIN s}

Abs(x) == IF x < 0 THEN -x ELSE x

RECURSIVE Gcd(_, _)
Gcd(a, b) == IF b = 0 THEN a ELSE Gcd(b, a % b)

RECURSIVE GcdSeq(_)
GcdSeq(s) == IF s = <<>> THEN 0 ELSE Gcd(Abs(s[1]), GcdSeq(Tail(s)))

Dot(u, v) == SumSeq([k \in 1..Len(u) |-> u[k] * v[k]])

NormSq(v) == Dot(v, v)

\* nn.Linear(in, out, bias=False): weight has shape [out, in], y = W x
Linear(W, x) == [k \in 1..Len(W) |-> Dot(W[k], x)]

Zeros(n) == [k \in 1..n |-> 0]

NaN(n) == [vec |-> Zeros(n), nsq |-> 0]

IsNaN(x) == x.nsq = 0

\* v / v.norm() for an integer vector v: 0 / 0 = NaN, otherwise the unit
\* vector of v's direction, written with the primitive integer vector
DivByNorm(v) ==
    IF NormSq(v) = 0 THEN NaN(Len(v))
    ELSE LET g == GcdSeq(v)
             w == [k \in 1..Len(v) |-> v[k] \div g]
         IN [vec |-> w, nsq |-> NormSq(w)]

\* x / x.norm() for a hidden state x (NaN / NaN = NaN)
Normalize(x) == IF IsNaN(x) THEN x ELSE DivByNorm(x.vec)

---------------------------------------------------------------------------
(* Tensors: t[b][p] is the vector of sample b at position p *)

BatchOf(t) == Len(t)

SeqLenOf(t) == Len(t[1])

\* width of a tensor of integer vectors / of hidden states
WidthOf(t) == Len(t[1][1])

HiddenWidthOf(t) == Len(t[1][1].vec)

\* torch.cat([t, i], dim=1)
Cat1(t, i) == [b \in 1..Len(t) |-> t[b] \o i[b]]

\* a split one position too late
SliceToNext(t, n) == [b \in 1..Len(t) |-> SubSeq(t[b], 1, n + 1)]

\* t[:, :n, :] and t[:, n:, :]
SliceTo(t, n) == [b \in 1..Len(t) |-> SubSeq(t[b], 1, n)]

SliceFrom(t, n) == [b \in 1..Len(t) |-> SubSeq(t[b], n + 1, Len(t[b]))]

\* t[:, 0, :]
First(t) == [b \in 1..Len(t) |-> t[b][1]]

\* a transpose that leaves the matrix as it is
TransposeIdentity(M) == M

\* M.T of a matrix given by its rows
Transpose(M) == [j \in 1..Len(M[1]) |-> [i \in 1..Len(M) |-> M[i][j]]]

\* torch.flatten(z, start_dim=2) of z[b][c][i][j]
Flatten2(z) ==
    [b \in 1..Len(z) |-> [c \in 1..Len(z[b]) |->
        LET w == Len(z[b][c][1])
        IN [q \in 1..(Len(z[b][c]) * w) |->
               z[b][c][((q - 1) \div w) + 1][((q - 1) % w) + 1]]]]

\* t.permute((0, 2, 1))
Permute021(t) ==
    [b \in 1..Len(t) |-> [p \in 1..Len(t[b][1]) |->
        [c \in 1..Len(t[b]) |-> t[b][c][p]]]]

---------------------------------------------------------------------------
(* Exceptions *)

NoError == [type |-> "none", stack |-> <<>>]

Raise(type, stack) == [type |-> type, stack |-> stack]

\* an exception passing through the frame f on its way out
Through(f, e) == [type |-> e.type, stack |-> <<f>> \o e.stack]

\* Optional[x]: {} is None, {x} is x
None == {}

Some(x) == {x}

The(o) == CHOOSE x \in o : TRUE

---------------------------------------------------------------------------
(* The external encoders *)

\* text_model.config.hidden_size of the text model handed to Adaptor
TextHiddenSize == 2

\* last axis of what the vision model returns
VisionHiddenSize == 2

\* the value an encoder puts at sample b, position p, channel h
Val(pal, b, p, h) == pal[1] * (b - 1) + pal[2] * ((p + h) % 2)

\* text_model(input_ids=...).last_hidden_state: [B, Lt, Ht]
TextModel(input_ids) ==
    [b \in 1..input_ids.batch |-> [p \in 1..input_ids.len |->
        [h \in 1..TextHiddenSize |-> Val(input_ids.pal, b, p, h)]]]

\* vision_model(pixel_values) of a transformer or convolutional backbone:
\* [B, Li, Hv], one position per image patch
VisionModel(pixel_values) ==
    [b \in 1..pixel_values.batch |->
        [p \in 1..(pixel_values.height * pixel_values.width) |->
            [h \in 1..VisionHiddenSize |-> Val(pixel_values.pal, b, p, h)]]]

\* vision_model(pixel_values)['z'] of the autoencoder: [B, C, h, w]
LatentModel(pixel_values) ==
    [b \in 1..pixel_values.batch |-> [c \in 1..VisionHiddenSize |->
        [i \in 1..pixel_values.height |-> [j \in 1..pixel_values.width |->
            Val(pixel_values.pal, b, (i - 1) * pixel_values.width + j, c)]]]]

---------------------------------------------------------------------------
(* Construction *)

\* the values torch gives a freshly built weight: here 1 on the diagonal
WeightInit(out, in) == [k \in 1..out |-> [h \in 1..in |-> IF k = h THEN 1 ELSE 0]]

\* nn.Linear(in_features, out_features, bias=False); in_features is Optional
LinearInit(in_features, out_features) ==
    IF in_features = None
    THEN [raised |-> Raise("TypeError", <<"nn.Linear.__init__">>), weight |-> <<>>]
    ELSE [raised |-> NoError, weight |-> WeightInit(out_features, The(in_features))]

\* Project.__init__
ProjectInit(text_embed_dim, vision_embed_dim, projection_dim) ==
    LET visual == LinearInit(vision_embed_dim, projection_dim)
        text == LinearInit(Some(text_embed_dim), projection_dim)
        fields == [text_embed_dim |-> text_embed_dim,
                   vision_embed_dim |-> vision_embed_dim,
                   projection_dim |-> projection_dim]
    IN IF visual.raised # NoError
       THEN [raised |-> Through("Project.__init__", visual.raised),
             fields |-> fields, visual_projection |-> <<>>, text_projection |-> <<>>]
       ELSE [raised |-> NoError, fields |-> fields,
             visual_projection |-> visual.weight,
             text_projection |-> text.weight]

\* BertConfig(num_hidden_layers=n): the fields the encoder reads
BertConfig(n) == [hidden_size |-> DefaultHiddenSize, num_hidden_layers |-> n]

\* AdaptorModule.__init__(config, num_hidden_layers=2)
AdaptorModuleInit(config) ==
    [config |-> IF config # None THEN The(config)
                ELSE BertConfig(DefaultNumHiddenLayers),
     encoder |-> 1]

\* the assert that closes Adaptor.__init__
VisionOutputDimCheck(vision_model_type, vision_output_dim) ==
    IF vision_model_type # "transformer" /\ vision_output_dim = None
    THEN Raise("AssertionError", <<"Adaptor.__init__">>)
    ELSE NoError

NoSelf ==
    [vision_model_type |-> "", vision_output_dim |-> None, projection_dim |-> 0,
     logit_scale_init_value |-> 0,
     projection |-> [text_embed_dim |-> 0, vision_embed_dim |-> None,
                     projection_dim |-> 0],
     adaptor_module |-> [config |-> [hidden_size |-> 0, num_hidden_layers |-> 0]]]

NoParams ==
    [text_projection |-> <<>>, visual_projection |-> <<>>, encoder |-> 0,
     logit_scale |-> 0]

\* Adaptor.__init__: what it leaves behind, [raised, self, params]
AdaptorInit(vision_model_type, vision_output_dim, projection_dim, adaptor_config, logit_scale_init_value) ==
    LET projection == ProjectInit(TextHiddenSize, vision_output_dim, projection_dim)
        adaptor_module == AdaptorModuleInit(adaptor_config)
        check == VisionOutputDimCheck(vision_model_type, vision_output_dim)
    IN IF projection.raised # NoError
       THEN [raised |-> Through("Adaptor.__init__", projection.raised),
             self |-> NoSelf, params |-> NoParams]
       ELSE IF check # NoError
       THEN [raised |-> check, self |-> NoSelf, params |-> NoParams]
       ELSE [raised |-> NoError,
             self |-> [vision_model_type |-> vision_model_type,
                       vision_output_dim |-> vision_output_dim,
                       projection_dim |-> projection_dim,
                       logit_scale_init_value |-> logit_scale_init_value,
                       projection |-> projection.fields,
                       adaptor_module |-> [config |-> adaptor_module.config]],
             params |-> [text_projection |-> projection.text_projection,
                         visual_projection |-> projection.visual_projection,
                         encoder |-> adaptor_module.encoder,
                         logit_scale |-> logit_scale_init_value]]

---------------------------------------------------------------------------
(* Project.forward *)

\* F.linear(x, W) over a tensor; in_features must be the width of x
LinearForward(W, t) == [b \in 1..Len(t) |-> [p \in 1..Len(t[b]) |-> Linear(W, t[b][p])]]

\* t / t.norm(dim=-1, keepdim=True) of a tensor of integer vectors
DivByNormAll(t) == [b \in 1..Len(t) |-> [p \in 1..Len(t[b]) |-> DivByNorm(t[b][p])]]

\* the squared norms DivByNormAll(t) divides by
NormsOf(t) == {NormSq(t[b][p]) : b \in 1..Len(t), p \in 1..Len(t[1])}

\* Project.forward(text_embeds_, image_embeds_), which returns
\* (image_embeds, text_embeds)
ProjectForward(proj, P, text_embeds_, image_embeds_) ==
    LET fail(layer) == [raised |-> Raise("RuntimeError", <<"Project.forward", layer>>),
                        image_embeds |-> <<>>, text_embeds |-> <<>>, norms |-> {}]
    IN IF WidthOf(text_embeds_) # proj.text_embed_dim
       THEN fail("text_projection")
       ELSE IF WidthOf(image_embeds_) # The(proj.vision_embed_dim)
       THEN fail("visual_projection")
       ELSE LET text_embeds == LinearForward(P.text_projection, text_embeds_)
                image_embeds == LinearForward(P.visual_projection, image_embeds_)
            IN [raised |-> NoError,
                image_embeds |-> DivByNormAll(image_embeds),
                text_embeds |-> DivByNormAll(text_embeds),
                norms |-> NormsOf(text_embeds) \cup NormsOf(image_embeds)]

---------------------------------------------------------------------------
(* AdaptorModule.forward *)

\* torch.ones((batch_size, seq_length))
Ones(batch_size, seq_length) == [b \in 1..batch_size |-> [p \in 1..seq_length |-> 1]]

\* componentwise sum of the vectors vs[q].vec with mask[q] = 1
RECURSIVE MaskedSum(_, _, _)
MaskedSum(vs, mask, n) ==
    IF vs = <<>> THEN Zeros(n)
    ELSE LET rest == MaskedSum(Tail(vs), Tail(mask), n)
         IN [k \in 1..n |-> mask[1] * vs[1].vec[k] + rest[k]]

\* one BertLayer over the positions of one sample: each position keeps its
\* own vector, weighted by the layer's parameter, and adds what it attends
\* to, the vectors of all unmasked positions; NaN anywhere spreads everywhere
BertLayer(w, hs, mask) ==
    LET n == Len(hs[1].vec)
        attended == MaskedSum(hs, mask, n)
    IN [p \in 1..Len(hs) |->
           IF \E q \in 1..Len(hs) : IsNaN(hs[q]) THEN NaN(n)
           ELSE [vec |-> [k \in 1..n |-> w * hs[p].vec[k] + attended[k]],
                 nsq |-> 1]]

\* BertEncoder: num_hidden_layers layers, one after the other
RECURSIVE BertEncoder(_, _, _, _)
BertEncoder(layers, w, hs, mask) ==
    IF layers = 0 THEN hs
    ELSE BertEncoder(layers - 1, w, BertLayer(w, hs, mask), mask)

\* AdaptorModule.forward(text_embeds, image_embeds): [raised, last_hidden_state]
AdaptorModuleForward(module, w, text_embeds, image_embeds) ==
    LET fail(stack) == [raised |-> Raise("RuntimeError", <<"AdaptorModule.forward">> \o stack),
                        last_hidden_state |-> <<>>]
    IN IF BatchOf(text_embeds) # BatchOf(image_embeds)
          \/ HiddenWidthOf(text_embeds) # HiddenWidthOf(image_embeds)
       THEN fail(<<"torch.cat">>)
       ELSE LET inputs_embeds == Cat1(text_embeds, image_embeds)
                batch_size == BatchOf(inputs_embeds)
                seq_length == SeqLenOf(inputs_embeds)
                attention_mask == Ones(batch_size, seq_length)
            IN IF HiddenWidthOf(inputs_embeds) # module.config.hidden_size
               THEN fail(<<"BertEncoder.forward", "BertLayer.forward">>)
               ELSE [raised |-> NoError,
                     last_hidden_state |->
                        [b \in 1..batch_size |->
                            BertEncoder(module.config.num_hidden_layers, w,
                                        inputs_embeds[b], attention_mask[b])]]

---------------------------------------------------------------------------
(* Similarity and loss *)

\* the squared norms a normalisation of the hidden states t divides by
\* (the norm of a NaN vector is NaN and is left out)
HiddenNormsOf(t) ==
    LET xs == {t[b][p] : b \in 1..Len(t), p \in 1..Len(t[1])}
    IN {NormSq(x.vec) : x \in {y \in xs : ~IsNaN(y)}}

\* a normalisation that is skipped
NormalizeAllSkipped(t) == t

\* t / t.norm(dim=-1, keepdim=True) of a tensor of hidden states
NormalizeAll(t) == [b \in 1..Len(t) |-> [p \in 1..Len(t[b]) |-> Normalize(t[b][p])]]

\* the product of two unit vectors, times exp(logit_scale)
ScaledDot(x, y, logit_scale) ==
    [num |-> Dot(x.vec, y.vec), dsq |-> x.nsq * y.nsq, ls |-> logit_scale]

\* torch.matmul(t, i.t()) * logit_scale.exp() of two [B, D] matrices
MatMulT(t, i, logit_scale) ==
    [a \in 1..Len(t) |-> [b \in 1..Len(i) |-> ScaledDot(t[a], i[b], logit_scale)]]

BagOfSeq(s) == [x \in Range(s) |-> Cardinality({i \in DOMAIN s : s[i] = x})]

\* nn.functional.cross_entropy(logits, torch.arange(len(logits))): the mean
\* over the rows i of logsumexp(logits[i]) - logits[i][i]
ContrastiveLoss(logits) ==
    [mean |-> BagOfSeq([i \in 1..Len(logits) |->
                  [lse |-> BagOfSeq(logits[i]), target |-> logits[i][i]]]),
     n |-> Len(logits)]

\* clip_loss(similarity) = (caption_loss + image_loss) / 2.0
ClipLoss(similarity) ==
    LET caption_loss == ContrastiveLoss(similarity)
        image_loss == ContrastiveLoss(Transpose(similarity))
    IN [half |-> BagOfSeq(<<caption_loss, image_loss>>)]

---------------------------------------------------------------------------
(* State *)

NoArgs ==
    [input_ids |-> [batch |-> 0, len |-> 0, pal |-> <<>>],
     pixel_values |-> [batch |-> 0, height |-> 0, width |-> 0, pal |-> <<>>],
     return_loss |-> FALSE, return_dict |-> FALSE]

NoLocals ==
    [image_embeds_raw |-> <<>>, text_embeds_raw |-> <<>>,
     image_embeds |-> <<>>, text_embeds |-> <<>>,
     last_hidden_state |-> <<>>, text_seq_len |-> 0,
     logits_per_text |-> <<>>, logits_per_image |-> <<>>, loss |-> None]

NoReturn == [kind |-> "none", error |-> NoError, form |-> "none", value |-> <<>>]

NoInitArgs ==
    [vision_model_type |-> "", vision_output_dim |-> None, projection_dim |-> 0,
     adaptor_config |-> None]

Init ==
    /\ phase = "new"
    /\ init_args = NoInitArgs
    /\ ctor_error = NoError
    /\ self = NoSelf
    /\ params = NoParams
    /\ pc = "idle"
    /\ args = NoArgs
    /\ bound = {}
    /\ loc = NoLocals
    /\ trace = <<>>
    /\ denoms = {}
    /\ stdout = <<>>
    /\ ret = NoReturn

call_vars == <<pc, args, bound, loc, trace, denoms, stdout, ret>>

object_vars == <<phase, init_args, ctor_error, self, params>>

\* model = Adaptor(...)
Construct ==
    /\ phase = "new"
    /\ \E vision_model_type \in Tags,
          vision_output_dim \in {None} \cup {Some(d) : d \in Dims},
          projection_dim \in Dims,
          adaptor_config \in {None} \cup
              {Some([hidden_size |-> h, num_hidden_layers |-> 1]) : h \in Dims} :
          LET r == AdaptorInit(vision_model_type, vision_output_dim, projection_dim,
                               adaptor_config, LogitScaleInitValue)
          IN /\ init_args' = [vision_model_type |-> vision_model_type,
                              vision_output_dim |-> vision_output_dim,
                              projection_dim |-> projection_dim,
                              adaptor_config |-> adaptor_config]
             /\ phase' = IF r.raised = NoError THEN "constructed" ELSE "ctor_failed"
             /\ ctor_error' = r.raised
             /\ self' = r.self
             /\ params' = r.params
    /\ UNCHANGED call_vars

---------------------------------------------------------------------------
(* Adaptor.forward, one statement group at a time *)

\* the call ends with the exception e
Abort(step, e) ==
    /\ pc' = "done"
    /\ trace' = Append(trace, step)
    /\ ret' = [kind |-> "raised", error |-> Through("Adaptor.forward", e),
               form |-> "none", value |-> <<>>]

\* the call goes on at the statement group next
Goto(step, next) ==
    /\ pc' = next
    /\ trace' = Append(trace, step)
    /\ ret' = ret

\* what a transformers model returns: with return_dict a structured output;
\* without it a plain tuple, unless the model ignores the flag
OutputForms(return_dict) == IF return_dict THEN {"structured"} ELSE {"structured", "tuple"}

\* outputs = model(input_ids=..., pixel_values=..., return_loss=..., return_dict=...)
ForwardCall ==
    /\ phase = "constructed"
    /\ pc = "idle"
    /\ \E bt \in 1..MaxBatch, bi \in 1..MaxBatch, lt \in 1..MaxLen,
          height \in 1..MaxLen, width \in 1..MaxLen,
          tpal \in Palettes, ipal \in Palettes,
          return_loss \in BOOLEAN, return_dict \in BOOLEAN :
          /\ height * width <= MaxLen
          /\ args' = [input_ids |-> [batch |-> bt, len |-> lt, pal |-> tpal],
                      pixel_values |-> [batch |-> bi, height |-> height,
                                        width |-> width, pal |-> ipal],
                      return_loss |-> return_loss, return_dict |-> return_dict]
    /\ pc' = "vision_encoder"
    /\ UNCHANGED <<bound, loc, trace, denoms, stdout, ret, object_vars>>

\* if self.vision_model_type == 'huggingface': ... .last_hidden_state
VisionHuggingface ==
    /\ pc = "vision_encoder"
    /\ self.vision_model_type = "huggingface"
    /\ \E form \in OutputForms(args.return_dict) :
          IF form = "structured"
          THEN /\ loc' = [loc EXCEPT !.image_embeds_raw = VisionModel(args.pixel_values)]
               /\ bound' = bound \cup {"image_embeds_raw"}
               /\ Goto("vision_encoder", "text_encoder")
          ELSE /\ Abort("vision_encoder", Raise("AttributeError", <<>>))
               /\ UNCHANGED <<loc, bound>>
    /\ UNCHANGED <<args, denoms, stdout, object_vars>>

\* elif self.vision_model_type == 'timm'
VisionTimm ==
    /\ pc = "vision_encoder"
    /\ self.vision_model_type = "timm"
    /\ loc' = [loc EXCEPT !.image_embeds_raw = VisionModel(args.pixel_values)]
    /\ bound' = bound \cup {"image_embeds_raw"}
    /\ Goto("vision_encoder", "text_encoder")
    /\ UNCHANGED <<args, denoms, stdout, object_vars>>

\* elif self.vision_model_type == 'ae': flatten the latent, move channels last
VisionAe ==
    /\ pc = "vision_encoder"
    /\ self.vision_model_type = "ae"
    /\ loc' = [loc EXCEPT !.image_embeds_raw =
                  Permute021(Flatten2(LatentModel(args.pixel_values)))]
    /\ bound' = bound \cup {"image_embeds_raw"}
    /\ Goto("vision_encoder", "text_encoder")
    /\ UNCHANGED <<args, denoms, stdout, object_vars>>

\* else: print(f'{self.vision_model_type} is not supported.')
VisionUnsupported ==
    /\ pc = "vision_encoder"
    /\ self.vision_model_type \notin {"huggingface", "timm", "ae"}
    /\ stdout' = Append(stdout, <<self.vision_model_type, "is not supported.">>)
    /\ Goto("vision_encoder", "text_encoder")
    /\ UNCHANGED <<args, bound, loc, denoms, object_vars>>

\* text_outputs = self.text_model(...); text_embeds_raw = text_outputs.last_hidden_state
TextEncode ==
    /\ pc = "text_encoder"
    /\ \E form \in OutputForms(args.return_dict) :
          IF form = "structured"
          THEN /\ loc' = [loc EXCEPT !.text_embeds_raw = TextModel(args.input_ids)]
               /\ bound' = bound \cup {"text_embeds_raw"}
               /\ Goto("text_encoder", "projection")
          ELSE /\ Abort("text_encoder", Raise("AttributeError", <<>>))
               /\ UNCHANGED <<loc, bound>>
    /\ UNCHANGED <<args, denoms, stdout, object_vars>>

\* image_embeds, text_embeds = self.projection(text_embeds_raw, image_embeds_raw)
Projection ==
    /\ pc = "projection"
    /\ IF "image_embeds_raw" \notin bound
       THEN /\ Abort("projection", Raise("UnboundLocalError", <<>>))
            /\ UNCHANGED <<loc, bound, denoms>>
       ELSE LET r == ProjectForward(self.projection, params,
                                    loc.text_embeds_raw, loc.image_embeds_raw)
            IN IF r.raised # NoError
               THEN /\ Abort("projection", r.raised)
                    /\ UNCHANGED <<loc, bound, denoms>>
               ELSE /\ loc' = [loc EXCEPT !.image_embeds = r.image_embeds,
                                          !.text_embeds = r.text_embeds]
                    /\ bound' = bound \cup {"image_embeds", "text_embeds"}
                    /\ denoms' = denoms \cup r.norms
                    /\ Goto("projection", "fusion")
    /\ UNCHANGED <<args, stdout, object_vars>>

\* outputs = self.adaptor_module(text_embeds, image_embeds)
Fusion ==
    /\ pc = "fusion"
    /\ LET r == AdaptorModuleForward(self.adaptor_module, params.encoder,
                                     loc.text_embeds, loc.image_embeds)
       IN IF r.raised # NoError
          THEN /\ Abort("fusion", r.raised)
               /\ UNCHANGED <<loc, bound>>
          ELSE /\ loc' = [loc EXCEPT !.last_hidden_state = r.last_hidden_state]
               /\ bound' = bound \cup {"outputs"}
               /\ Goto("fusion", "split")
    /\ UNCHANGED <<args, denoms, stdout, object_vars>>

\* text_seq_len = text_embeds.shape[1]; the two slices of last_hidden_state
Split ==
    /\ pc = "split"
    /\ LET text_seq_len == SeqLenOf(loc.text_embeds)
       IN loc' = [loc EXCEPT !.text_seq_len = text_seq_len,
                             !.text_embeds = SliceTo(loc.last_hidden_state, text_seq_len),
                             !.image_embeds = SliceFrom(loc.last_hidden_state, text_seq_len)]
    /\ bound' = bound \cup {"text_seq_len"}
    /\ Goto("split", "renormalize")
    /\ UNCHANGED <<args, denoms, stdout, object_vars>>

\* image_embeds = image_embeds / image_embeds.norm(...), the same for text_embeds
Renormalize ==
    /\ pc = "renormalize"
    /\ loc' = [loc EXCEPT !.image_embeds = NormalizeAll(loc.image_embeds),
                          !.text_embeds = NormalizeAll(loc.text_embeds)]
    /\ denoms' = denoms \cup HiddenNormsOf(loc.image_embeds)
                        \cup HiddenNormsOf(loc.text_embeds)
    /\ Goto("renormalize", "similarity")
    /\ UNCHANGED <<args, bound, stdout, object_vars>>

\* the same statement group, were it to write the scale back into the parameter
SimilarityInPlace ==
    /\ pc = "similarity"
    /\ LET logits_per_text == MatMulT(First(loc.text_embeds), First(loc.image_embeds),
                                      params.logit_scale)
       IN loc' = [loc EXCEPT !.logits_per_text = logits_per_text,
                             !.logits_per_image = Transpose(logits_per_text)]
    /\ bound' = bound \cup {"logit_scale", "logits_per_text", "logits_per_image"}
    /\ Goto("similarity", "loss")
    /\ params' = [params EXCEPT !.logit_scale = 0]
    /\ UNCHANGED <<args, denoms, stdout, phase, init_args, ctor_error, self>>

\* logit_scale = self.logit_scale.exp(); logits_per_text; logits_per_image
Similarity ==
    /\ pc = "similarity"
    /\ LET logits_per_text == MatMulT(First(loc.text_embeds), First(loc.image_embeds),
                                      params.logit_scale)
       IN loc' = [loc EXCEPT !.logits_per_text = logits_per_text,
                             !.logits_per_image = Transpose(logits_per_text)]
    /\ bound' = bound \cup {"logit_scale", "logits_per_text", "logits_per_image"}
    /\ Goto("similarity", "loss")
    /\ UNCHANGED <<args, denoms, stdout, object_vars>>

\* the loss of one direction only
CaptionLossOnly(return_loss, logits_per_text) ==
    IF return_loss THEN Some(ContrastiveLoss(logits_per_text)) ELSE None

\* loss = None; if return_loss: loss = clip_loss(logits_per_text)
LossOf(return_loss, logits_per_text) ==
    IF return_loss THEN Some(ClipLoss(logits_per_text)) ELSE None

Loss ==
    /\ pc = "loss"
    /\ loc' = [loc EXCEPT !.loss = LossOf(args.return_loss, loc.logits_per_text)]
    /\ bound' = bound \cup {"loss"}
    /\ Goto("loss", "return")
    /\ UNCHANGED <<args, denoms, stdout, object_vars>>

\* the tuple returned without return_dict
OutputTuple(l) ==
    LET output == <<l.logits_per_image, l.logits_per_text, l.text_embeds, l.image_embeds>>
    IN IF l.loss # None THEN <<The(l.loss)>> \o output ELSE output

\* CLIPOutput(...)
CLIPOutput(l) ==
    [loss |-> l.loss, logits_per_image |-> l.logits_per_image,
     logits_per_text |-> l.logits_per_text, text_embeds |-> l.text_embeds,
     image_embeds |-> l.image_embeds]

\* if not return_dict: return the tuple; return CLIPOutput(...)
Return ==
    /\ pc = "return"
    /\ pc' = "done"
    /\ trace' = Append(trace, "return")
    /\ ret' = IF ~args.return_dict
              THEN [kind |-> "returned", error |-> NoError, form |-> "tuple",
                    value |-> OutputTuple(loc)]
              ELSE [kind |-> "returned", error |-> NoError, form |-> "dict",
                    value |-> CLIPOutput(loc)]
    /\ UNCHANGED <<args, bound, loc, denoms, stdout, object_vars>>

\* the caller is done with the outcome; the locals of the call are gone
Release ==
    /\ pc = "done"
    /\ pc' = "idle"
    /\ args' = NoArgs
    /\ bound' = {}
    /\ loc' = NoLocals
    /\ trace' = <<>>
    /\ denoms' = {}
    /\ stdout' = <<>>
    /\ ret' = NoReturn
    /\ UNCHANGED object_vars

Forward ==
    \/ VisionHuggingface
    \/ VisionTimm
    \/ VisionAe
    \/ VisionUnsupported
    \/ TextEncode
    \/ Projection
    \/ Fusion
    \/ Split
    \/ Renormalize
    \/ Similarity
    \/ Loss
    \/ Return

Next ==
    \/ Construct
    \/ ForwardCall
    \/ Forward
    \/ Release

Spec == Init /\ [][Next]_vars
---------------------------------------------------------------------------
(* The loss on its own: clip_loss applied to every small square matrix *)

\* the logits of the cosines -1, 0 and 1
Logits == {[num |-> n, dsq |-> 1, ls |-> LogitScaleInitValue] : n \in {-1, 0, 1}}

SquareMatrices(n) == [1..n -> [1..n -> Logits]]

InitLoss ==
    /\ phase = "constructed"
    /\ init_args = NoInitArgs
    /\ ctor_error = NoError
    /\ self = NoSelf
    /\ params = NoParams
    /\ pc = "loss"
    /\ \E n \in 1..MaxBatch : \E L \in SquareMatrices(n), return_loss \in BOOLEAN :
          /\ args = [NoArgs EXCEPT !.return_loss = return_loss]
          /\ loc = [NoLocals EXCEPT !.logits_per_text = L,
                                    !.logits_per_image = Transpose(L)]
    /\ bound = {"logits_per_text", "logits_per_image"}
    /\ trace = <<>>
    /\ denoms = {}
    /\ stdout = <<>>
    /\ ret = NoReturn

SpecLoss == InitLoss /\ [][Loss]_vars

---------------------------------------------------------------------------
(* Claims *)

Arrived(step) == step \in Range(trace)

InCall == pc # "idle"

TextLen == args.input_ids.len

ImageLen == args.pixel_values.height * args.pixel_values.width

SupportedTags == {"huggingface", "timm", "ae"}

\* C1: with a vision_model_type outside the three supported ones, forward
\* fails at the dispatch on the tag: the call is over with an exception, no
\* later statement group (text encoder, projection, fusion, similarity) was
\* reached and nothing was merely printed.
C1_UnsupportedTagFailsAtDispatch ==
    (phase = "constructed" /\ self.vision_model_type \notin SupportedTags
        /\ Arrived("vision_encoder"))
    => /\ pc = "done"
       /\ ret.kind = "raised"
       /\ trace = <<"vision_encoder">>
       /\ stdout = <<>>

\* C2: when the batch sizes of the text and the image embeddings differ, the
\* call fails, and it fails before AdaptorModule.forward is entered.
C2_BatchMismatchFailsBeforeFusion ==
    (InCall /\ args.input_ids.batch # args.pixel_values.batch)
    => /\ ~Arrived("fusion")
       /\ pc = "done" => ret.kind = "raised"

\* C3: vision_output_dim is required exactly when the tag is not the
\* self-describing one: built with the convolutional or the autoencoder tag
\* and no vision_output_dim, the constructor fails with its configuration
\* check (the assert that closes Adaptor.__init__) and with nothing else
\* first; built with the self-describing tag (the default, 'huggingface')
\* and no vision_output_dim, the configuration check does not fail.
C3_VisionOutputDimCheckedFirst ==
    (phase # "new" /\ init_args.vision_output_dim = None)
    => /\ init_args.vision_model_type \in {"timm", "ae"}
            => ctor_error = Raise("AssertionError", <<"Adaptor.__init__">>)
       /\ init_args.vision_model_type = "huggingface"
            => ctor_error.type # "AssertionError"

\* C4: when projection_dim differs from the hidden size of the fusion
\* encoder's configuration (the default one included), the mismatch is
\* reported at construction or on entry to the fusion encoder, never by an
\* exception raised from inside the transformer layers.
C4_WidthMismatchNeverInsideLayers ==
    (phase = "constructed"
        /\ self.projection_dim # self.adaptor_module.config.hidden_size)
    => "BertEncoder.forward" \notin Range(ret.error.stack)

\* the two logits matrices of a returned value, whatever its form
ReturnedLogits ==
    IF ret.form = "dict"
    THEN [image |-> ret.value.logits_per_image, text |-> ret.value.logits_per_text]
    ELSE IF Len(ret.value) = 5
    THEN [image |-> ret.value[2], text |-> ret.value[3]]
    ELSE [image |-> ret.value[1], text |-> ret.value[2]]

\* C5: in every value forward returns, as a CLIPOutput or as a tuple,
\* logits_per_image is the transpose of logits_per_text: entry [j][i] of the
\* one is entry [i][j] of the other.
C5_LogitsPerImageIsTranspose ==
    ret.kind = "returned"
    => LET L == ReturnedLogits
       IN /\ Len(L.image) = Len(L.text[1])
          /\ \A j \in 1..Len(L.image) :
                /\ Len(L.image[j]) = Len(L.text)
                /\ \A i \in 1..Len(L.text) : L.image[j][i] = L.text[i][j]

C5_Witness ==
    /\ ret.kind = "returned"
    /\ ret.form = "tuple"
    /\ Len(ReturnedLogits.text) = MaxBatch
    /\ ReturnedLogits.text[1][2] # ReturnedLogits.text[2][1]
    /\ ReturnedLogits.text[1][2].dsq # 0
    /\ ReturnedLogits.text[2][1].dsq # 0

\* C6: the fusion encoder returns Lt + Li positions for every sample, and
\* the split at the text length recorded from the text embeddings gives the
\* first Lt positions as the text slice and the remaining Li as the image
\* slice.
C6_SplitAtTextLength ==
    /\ (Arrived("fusion") /\ pc # "done")
       => \A b \in 1..Len(loc.last_hidden_state) :
             Len(loc.last_hidden_state[b]) = TextLen + ImageLen
    /\ (Arrived("split") /\ ret.kind # "raised")
       => /\ loc.text_seq_len = TextLen
          /\ Len(loc.text_embeds) = args.input_ids.batch
          /\ Len(loc.image_embeds) = args.input_ids.batch
          /\ \A b \in 1..Len(loc.text_embeds) :
                /\ Len(loc.text_embeds[b]) = TextLen
                /\ Len(loc.image_embeds[b]) = ImageLen
    /\ pc = "renormalize"
       => \A b \in 1..Len(loc.last_hidden_state) :
             /\ \A p \in 1..TextLen :
                   loc.text_embeds[b][p] = loc.last_hidden_state[b][p]
             /\ \A p \in 1..ImageLen :
                   loc.image_embeds[b][p] = loc.last_hidden_state[b][TextLen + p]

C6_Witness ==
    /\ pc = "renormalize"
    /\ TextLen = MaxLen
    /\ ImageLen = MaxLen
    /\ args.input_ids.batch = MaxBatch
    /\ loc.text_embeds[MaxBatch][1] # loc.image_embeds[MaxBatch][1]

\* the parameters Adaptor.__init__ left behind
ParamsAtConstruction ==
    AdaptorInit(init_args.vision_model_type, init_args.vision_output_dim,
                init_args.projection_dim, init_args.adaptor_config,
                LogitScaleInitValue).params

\* C7: whatever forward calls were made, and however each ended, the
\* projection weights, the encoder weights and logit_scale are the ones the
\* object was built with.
C7_ForwardKeepsParameters ==
    phase = "constructed" => params = ParamsAtConstruction

C7_Witness ==
    /\ pc = "done"
    /\ ret.kind = "returned"
    /\ args.return_loss
    /\ params = ParamsAtConstruction
    /\ params.logit_scale = LogitScaleInitValue

\* C8: the loss of a square logits matrix is the loss of its transpose.
C8_LossSymmetric ==
    (pc = "return" /\ loc.loss # None)
    => loc.loss = LossOf(TRUE, Transpose(loc.logits_per_text))

C8_Witness ==
    /\ pc = "return"
    /\ loc.loss # None
    /\ Len(loc.logits_per_text) = MaxBatch
    /\ loc.logits_per_text[1][2] # loc.logits_per_text[2][1]
    /\ ContrastiveLoss(loc.logits_per_text)
          # ContrastiveLoss(Transpose(loc.logits_per_text))

\* C9: no normalisation divides by a norm that is exactly zero.
C9_NoZeroDenominator == 0 \notin denoms

ForwardOrder ==
    <<"vision_encoder", "text_encoder", "projection", "fusion", "split",
      "renormalize", "similarity", "loss", "return">>

\* the embeddings as Project.forward returned them, before the fusion
PreFusion ==
    ProjectForward(self.projection, params, loc.text_embeds_raw, loc.image_embeds_raw)

\* C10: the statement groups of a call run in the one order projection,
\* fusion, split, re-normalisation, similarity; and the logits are the
\* products of position 0 of the text slice and position 0 of the image
\* slice of the fusion encoder's output, each divided by its norm.
C10_LogitsFromRenormalizedFusion ==
    /\ Len(trace) <= Len(ForwardOrder)
    /\ trace = SubSeq(ForwardOrder, 1, Len(trace))
    /\ (Arrived("similarity") /\ ret.kind # "raised")
       => /\ Len(loc.logits_per_text) = args.input_ids.batch
          /\ \A i \in 1..Len(loc.logits_per_text) :
                /\ Len(loc.logits_per_text[i]) = args.pixel_values.batch
                /\ \A j \in 1..Len(loc.logits_per_text[i]) :
                      loc.logits_per_text[i][j] =
                         ScaledDot(Normalize(loc.last_hidden_state[i][1]),
                                   Normalize(loc.last_hidden_state[j][TextLen + 1]),
                                   params.logit_scale)

C10_Witness ==
    /\ pc = "loss"
    /\ args.input_ids.batch = MaxBatch
    /\ loc.logits_per_text
          # MatMulT(First(PreFusion.text_embeds), First(PreFusion.image_embeds),
                    params.logit_scale)
    /\ loc.logits_per_text
          # MatMulT(First(SliceTo(loc.last_hidden_state, TextLen)),
                    First(SliceFrom(loc.last_hidden_state, TextLen)),
                    params.logit_scale)
    /\ \A i \in 1..MaxBatch : \A j \in 1..MaxBatch : loc.logits_per_text[i][j].dsq # 0

===========================================================================
